---------------------------- MODULE Spec2Model ----------------------------
(*************************************************************************)
(* Databricks MCP server (main.py): module startup, the DatabricksMCP     *)
(* operations and the statement-execution poll loop, against an abstract  *)
(* remote SQL engine (the vendor WorkspaceClient) and a wall clock.       *)
(*                                                                        *)
(* Python strings that are only passed around are TLA+ strings; strings   *)
(* the program looks into (result cells, which str.upper() rewrites) are  *)
(* tuples of one-character strings.  Python's None is the value None for  *)
(* environment values and a has_* flag for optional response fields.      *)
(*************************************************************************)
EXTENDS Integers, Sequences, FiniteSets, TLC

-----------------------------------------------------------------------------
(* Bounds of the model *)

\* concurrent tool invocations the server may dispatch
NumCalls == 2
\* rows in a result data array
MaxRows == 2
\* clock ticks, each TickLen time-units long
MaxTicks == 2
TickLen == 30

(* Program constants *)

\* main.py:26
timeout == 60
\* main.py:27 (assigned, never read)
interval == 5

-----------------------------------------------------------------------------
(* Values *)

None == "<None>"

\* bool(v) for an environment value: None and "" are falsy
Truthy(v) == v # None /\ v # ""

\* all([...]) over a sequence of environment values
All(vs) == \A i \in 1..Len(vs) : Truthy(vs[i])

EnvValues == {None, "", "set"}

\* databricks.sdk.service.sql.StatementState
StatementState == {"PENDING", "RUNNING", "SUCCEEDED", "FAILED", "CANCELED", "CLOSED"}

\* the tools in the order main.py registers them
ToolNames ==
  << "execute_sql_query", "list_catalogs", "list_schemas", "list_tables",
     "describe_table", "create_schema", "create_table", "insert_data" >>

Procs == 1..NumCalls

\* str.upper() on one character
UpperChar(c) ==
  CASE c = "a" -> "A" [] c = "b" -> "B" [] c = "c" -> "C" [] c = "d" -> "D"
    [] c = "e" -> "E" [] c = "f" -> "F" [] c = "g" -> "G" [] c = "h" -> "H"
    [] c = "i" -> "I" [] c = "j" -> "J" [] c = "k" -> "K" [] c = "l" -> "L"
    [] c = "m" -> "M" [] c = "n" -> "N" [] c = "o" -> "O" [] c = "p" -> "P"
    [] c = "q" -> "Q" [] c = "r" -> "R" [] c = "s" -> "S" [] c = "t" -> "T"
    [] c = "u" -> "U" [] c = "v" -> "V" [] c = "w" -> "W" [] c = "x" -> "X"
    [] c = "y" -> "Y" [] c = "z" -> "Z" [] OTHER -> c

\* str.upper()
Upper(s) == [i \in 1..Len(s) |-> UpperChar(s[i])]

\* list(row): a new list of the row's items, in order
ListOf(row) == [i \in 1..Len(row) |-> row[i]]


\* all sequences over S of length at most n
BoundedSeq(S, n) == UNION {[1..k -> S] : k \in 0..n}

-----------------------------------------------------------------------------
(* Result cells: strings as the engine's JSON data array carries them *)

Str_1 == <<"1">>
Str_2 == <<"2">>
Str_Alice == <<"A", "l", "i", "c", "e">>
Str_Bob == <<"B", "o", "b">>
Str_id == <<"i", "d">>
Str_name == <<"n", "a", "m", "e">>
Str_int == <<"i", "n", "t">>
Str_INT == <<"I", "N", "T">>
Str_string == <<"s", "t", "r", "i", "n", "g">>
Str_STRING == <<"S", "T", "R", "I", "N", "G">>
Str_Dec == <<"D", "e", "c", "(", "9", ")">>
Str_empty == << >>

\* rows a SELECT on the test table can return: (id, name)
TableRows == {<<i, n>> : i \in {Str_1, Str_2}, n \in {Str_Alice, Str_Bob}}

\* rows DESCRIBE TABLE returns: (col_name, data_type, comment)
DescribeRows ==
  {<<c, t, Str_empty>> : c \in {Str_id, Str_name}, t \in {Str_int, Str_string, Str_Dec}}

\* the rows of the table the test suite builds (test_databricks_mcp.py)
FixtureRows == << <<Str_1, Str_Alice>>, <<Str_2, Str_Bob>> >>
FixtureDescription == << <<Str_id, Str_int, Str_empty>>, <<Str_name, Str_string, Str_empty>> >>

-----------------------------------------------------------------------------
(* SQL text, as the sequence of pieces the f-strings join *)

\* ", ".join(parts) for a sequence of token sequences
RECURSIVE Join(_)
Join(parts) ==
  IF Len(parts) = 0 THEN << >>
  ELSE IF Len(parts) = 1 THEN parts[1]
  ELSE parts[1] \o <<", ">> \o Join(Tail(parts))

\* f"{catalog}.{schema}.{table}"
FullName(catalog, schema, table) == <<catalog, ".", schema, ".", table>>

\* describe_table: f"DESCRIBE TABLE {table_full_name}"
DescribeSql(catalog, schema, table) ==
  <<"DESCRIBE TABLE ">> \o FullName(catalog, schema, table)

\* create_table: f"CREATE TABLE {table_full_name} ({', '.join(column_defs)})"
CreateTableSql(catalog, schema, table, columns) ==
  LET column_defs == [i \in 1..Len(columns) |-> <<columns[i].name, " ", columns[i].type>>]
  IN  <<"CREATE TABLE ">> \o FullName(catalog, schema, table)
        \o <<" (">> \o Join(column_defs) \o <<")">>

\* insert_data.format_value: quote strings, str() everything else
format_value(val) ==
  IF val.isstr THEN <<"'", val.v, "'">> ELSE <<val.v>>

\* insert_data: f"INSERT INTO {table_full_name} VALUES {values_str}"
InsertSql(table_full_name, values) ==
  LET tuple(row) == <<"(">> \o Join([j \in 1..Len(row) |-> format_value(row[j])]) \o <<")">>
      values_str == Join([i \in 1..Len(values) |-> tuple(values[i])])
  IN  <<"INSERT INTO ", table_full_name, " VALUES ">> \o values_str

\* arguments the tools are invoked with
Catalog == "main"
Schema == "test_schema"
Table == "test_table"
Columns == << [name |-> "id", type |-> "INT"], [name |-> "name", type |-> "STRING"] >>
Values ==
  << << [isstr |-> FALSE, v |-> "1"], [isstr |-> TRUE, v |-> "Alice"] >>,
     << [isstr |-> FALSE, v |-> "2"], [isstr |-> TRUE, v |-> "Bob"] >> >>
SelectSql == <<"SELECT * FROM ">> \o FullName(Catalog, Schema, Table)

-----------------------------------------------------------------------------
(* State *)

VARIABLES
  env,        \* process environment after load_dotenv(): host, token, warehouse_id
  main,       \* position of the module-level code of main.py
  startup_error, \* the exception module startup ended with, or None
  databricks, \* the module-level DatabricksMCP instance: client, warehouse_id
  tools,      \* names registered with the FastMCP server, in order
  now,        \* time.time(), the wall clock
  statements, \* remote engine: the statements submitted, indexed by statement id
  schemas,    \* remote engine: the schema names of the catalog
  call,       \* per invocation: position and local variables of the tool call
  world       \* what the surroundings do: which invocations are dispatched,
              \* which data the engine holds

vars ==
  <<env, main, startup_error, databricks, tools, now, statements, schemas, call, world>>

\* DatabricksMCP before __init__ ran
NoInstance ==
  [constructed |-> FALSE, client |-> [host |-> None, token |-> None], warehouse_id |-> None]

\* status_response.result: absent, or carrying an absent or present data_array
NoResult == [has_result |-> FALSE, has_data |-> FALSE, data_array |-> << >>]
NoData == [has_result |-> TRUE, has_data |-> FALSE, data_array |-> << >>]
Data(a) == [has_result |-> TRUE, has_data |-> TRUE, data_array |-> a]

NoResponse == [statement_id |-> 0, state |-> "", result |-> NoResult]

\* what a call ended with: a returned value or a raised exception
NoOutcome ==
  [kind |-> "none", rows |-> << >>, columns |-> << >>, data_types |-> << >>,
   names |-> << >>, error |-> << >>]
ReturnRows(rows) == [NoOutcome EXCEPT !.kind = "rows", !.rows = rows]
ReturnNone == [NoOutcome EXCEPT !.kind = "None"]
ReturnNames(names) == [NoOutcome EXCEPT !.kind = "names", !.names = names]
ReturnDict(columns, data_types) ==
  [NoOutcome EXCEPT !.kind = "dict", !.columns = columns, !.data_types = data_types]
Raise(error) == [NoOutcome EXCEPT !.kind = "raise", !.error = error]

\* the exceptions of execute_sql_query, by their messages
ExecutionFailure == <<"SQL execution failed">>
ExecutionCanceled == <<"SQL execution was canceled">>
UnexpectedState(state) == <<"Unexpected statement state: ", state>>
Timeout == <<"SQL execution timed out">>
\* the ValueError of module startup
MissingConfiguration ==
  <<"Missing required environment variables: DATABRICKS_HOST, DATABRICKS_TOKEN, DATABRICKS_WAREHOUSE_ID">>
\* an error of the remote service, passed through
RemoteError == <<"remote error">>

IdleCall ==
  [pc |-> "idle", tool |-> "", sql |-> << >>, statement_id |-> 0, start_time |-> 0,
   status_response |-> NoResponse, core |-> NoOutcome, outcome |-> NoOutcome,
   rpcs |-> << >>, observed |-> << >>]

\* the dispatching and the engine data a run is set in
Worlds ==
  { [callers |-> Procs, data |-> "fixture"], [callers |-> {1}, data |-> "any"] }

TypeOK ==
  /\ env \in [host : EnvValues, token : EnvValues, warehouse_id : EnvValues]
  /\ main \in {"check", "construct", "register", "serving", "failed"}
  /\ now \in 0..(MaxTicks * TickLen)
  /\ world \in Worlds
  /\ \A p \in Procs : call[p].pc \in {"idle", "loop", "done"}

-----------------------------------------------------------------------------
(* Module startup, main.py lines 111-166 *)

StartState(w) ==
  /\ env \in [host : EnvValues, token : EnvValues, warehouse_id : EnvValues]
  /\ main = "check"
  /\ startup_error = None
  /\ databricks = NoInstance
  /\ tools = << >>
  /\ now = 0
  /\ statements = << >>
  /\ schemas = << [name |-> "default"] >>
  /\ call = [p \in Procs |-> IdleCall]
  /\ world = w

\* one invocation against every result the bounds allow
Init == StartState([callers |-> {1}, data |-> "any"])

\* concurrent invocations against the test fixture's data
InitConcurrent == StartState([callers |-> Procs, data |-> "fixture"])

\* a check that forgets the warehouse identifier
ConfigMissingIgnoresWarehouse(e) == ~All(<<e.host, e.token>>)

\* line 119: not all([host, token, warehouse_id])
ConfigMissing(e) == ~All(<<e.host, e.token, e.warehouse_id>>)

\* lines 115-120: read the environment and refuse to start without it
CheckConfig ==
  /\ main = "check"
  /\ IF ConfigMissing(env)
     THEN /\ main' = "failed"
          /\ startup_error' = MissingConfiguration
     ELSE /\ main' = "construct"
          /\ UNCHANGED startup_error
  /\ UNCHANGED <<env, databricks, tools, now, statements, schemas, call, world>>

\* line 122, DatabricksMCP.__init__ (lines 11-14)
Construct ==
  /\ main = "construct"
  /\ databricks' = [constructed |-> TRUE,
                    client |-> [host |-> env.host, token |-> env.token],
                    warehouse_id |-> env.warehouse_id]
  /\ main' = "register"
  /\ UNCHANGED <<env, startup_error, tools, now, statements, schemas, call, world>>

\* lines 125-163: each @mcp.tool() registers the next function
RegisterTool ==
  /\ main = "register"
  /\ Len(tools) < Len(ToolNames)
  /\ tools' = Append(tools, ToolNames[Len(tools) + 1])
  /\ UNCHANGED <<env, main, startup_error, databricks, now, statements, schemas, call, world>>

\* lines 165-166: mcp.run() starts serving tool invocations
Run ==
  /\ main = "register"
  /\ Len(tools) = Len(ToolNames)
  /\ main' = "serving"
  /\ UNCHANGED <<env, startup_error, databricks, tools, now, statements, schemas, call, world>>

-----------------------------------------------------------------------------
(* The remote engine behind self.client (the vendor WorkspaceClient) *)

Catalogs == << [name |-> "main"], [name |-> "samples"] >>
Tables == << [name |-> "test_table"] >>

Terminal == {"SUCCEEDED", "FAILED", "CANCELED"}

\* the states a statement can move to next
NextStates(state) ==
  CASE state = "PENDING" -> {"RUNNING", "FAILED", "CANCELED"}
    [] state = "RUNNING" -> {"SUCCEEDED", "FAILED", "CANCELED"}
    [] state = "SUCCEEDED" -> {"CLOSED"}
    [] OTHER -> {}

\* the data arrays the engine may hold for a statement
Arrays(sql) ==
  IF world.data = "any"
  THEN IF sql[1] = "DESCRIBE TABLE "
       THEN BoundedSeq(DescribeRows, MaxRows)
       ELSE BoundedSeq(TableRows, MaxRows)
  ELSE IF sql[1] = "DESCRIBE TABLE "
       THEN {FixtureDescription}
       ELSE {FixtureRows}

\* the result payloads a status response may carry for a statement: a finished
\* statement may come with no result, a result without data, or a data array
Results(st) ==
  IF st.state \in {"SUCCEEDED", "FAILED"}
  THEN IF world.data = "any"
       THEN {NoResult, NoData} \cup {Data(a) : a \in Arrays(st.sql)}
       ELSE {Data(a) : a \in Arrays(st.sql)}
  ELSE {NoResult}

\* statement_execution.get_statement(statement_id): the responses possible
Responses(statement_id) ==
  {[statement_id |-> statement_id, state |-> statements[statement_id].state, result |-> r] :
     r \in Results(statements[statement_id])}

\* the engine works on a statement (one whose caller still waits for it: what
\* becomes of a statement after its call ended is seen by nobody)
EngineAdvance ==
  /\ \E id \in 1..Len(statements) :
       /\ call[statements[id].submitter].pc # "done"
       /\ \E s \in NextStates(statements[id].state) :
            statements' = [statements EXCEPT ![id].state = s]
  /\ UNCHANGED <<env, main, startup_error, databricks, tools, now, schemas, call, world>>

\* time passes
Tick ==
  /\ now + TickLen <= MaxTicks * TickLen
  /\ now' = now + TickLen
  /\ UNCHANGED <<env, main, startup_error, databricks, tools, statements, schemas, call, world>>

-----------------------------------------------------------------------------
(* DatabricksMCP.execute_sql_query, main.py lines 16-48 *)

\* line 31: while time.time() - start_time < timeout
LoopCondition(t, start_time) == t - start_time < timeout

\* rows copied back to front
RowsReversed(data_array) ==
  [i \in 1..Len(data_array) |-> ListOf(data_array[Len(data_array) + 1 - i])]

\* line 38: [list(row) for row in status_response.result.data_array]
Rows(data_array) == [i \in 1..Len(data_array) |-> ListOf(data_array[i])]

\* line 37: status_response.result and status_response.result.data_array
HasData(result) ==
  result.has_result /\ result.has_data /\ Len(result.data_array) > 0

\* a loop body that takes FAILED for a finished statement and returns its rows
BranchFailedAsSucceeded(status_response) ==
  LET state == status_response.state
  IN  IF state \in {"SUCCEEDED", "FAILED"}
      THEN IF HasData(status_response.result)
           THEN ReturnRows(Rows(status_response.result.data_array))
           ELSE ReturnRows(<< >>)
      ELSE IF state = "CANCELED" THEN Raise(ExecutionCanceled)
      ELSE Raise(UnexpectedState(state))

\* a loop body that keeps polling while the statement is pending or running
BranchWaits(status_response) ==
  LET state == status_response.state
  IN  IF state = "SUCCEEDED"
      THEN IF HasData(status_response.result)
           THEN ReturnRows(Rows(status_response.result.data_array))
           ELSE ReturnRows(<< >>)
      ELSE IF state = "FAILED" THEN Raise(ExecutionFailure)
      ELSE IF state = "CANCELED" THEN Raise(ExecutionCanceled)
      ELSE IF state \in {"PENDING", "RUNNING"} THEN NoOutcome
      ELSE Raise(UnexpectedState(state))

\* a loop body without line 39: success without data returns nothing
BranchMissingReturn(status_response) ==
  LET state == status_response.state
  IN  IF state = "SUCCEEDED"
      THEN IF HasData(status_response.result)
           THEN ReturnRows(Rows(status_response.result.data_array))
           ELSE NoOutcome
      ELSE IF state = "FAILED" THEN Raise(ExecutionFailure)
      ELSE IF state = "CANCELED" THEN Raise(ExecutionCanceled)
      ELSE Raise(UnexpectedState(state))

\* lines 33-45: what the loop body does with a status response; kind "none"
\* would fall through to the loop condition again
Branch(status_response) ==
  LET state == status_response.state
  IN  IF state = "SUCCEEDED"
      THEN IF HasData(status_response.result)
           THEN ReturnRows(Rows(status_response.result.data_array))
           ELSE ReturnRows(<< >>)
      ELSE IF state = "FAILED" THEN Raise(ExecutionFailure)
      ELSE IF state = "CANCELED" THEN Raise(ExecutionCanceled)
      ELSE Raise(UnexpectedState(state))

\* a describe_table that forgets .upper()
ToolResultNoUpper(tool, core) ==
  IF core.kind = "raise" THEN core
  ELSE IF tool = "describe_table"
       THEN ReturnDict([i \in 1..Len(core.rows) |-> core.rows[i][1]],
                       [i \in 1..Len(core.rows) |-> core.rows[i][2]])
  ELSE IF tool = "execute_sql_query" THEN core
  ELSE ReturnNone

\* a describe_table that catches the core's exception and describes nothing
ToolResultSwallows(tool, core) ==
  IF tool = "describe_table"
  THEN IF core.kind = "raise"
       THEN ReturnDict(<< >>, << >>)
       ELSE ReturnDict([i \in 1..Len(core.rows) |-> core.rows[i][1]],
                       [i \in 1..Len(core.rows) |-> Upper(core.rows[i][2])])
  ELSE IF core.kind = "raise" THEN core
  ELSE IF tool = "execute_sql_query" THEN core
  ELSE ReturnNone

\* what the tool makes of execute_sql_query's outcome: describe_table lines
\* 81-86, create_table line 97, insert_data line 109, the tool wrappers
\* lines 126-163; an exception propagates through all of them
ToolResult(tool, core) ==
  IF core.kind = "raise" THEN core
  ELSE IF tool = "describe_table"
       THEN ReturnDict([i \in 1..Len(core.rows) |-> core.rows[i][1]],
                       [i \in 1..Len(core.rows) |-> Upper(core.rows[i][2])])
  ELSE IF tool = "execute_sql_query" THEN core
  ELSE ReturnNone

\* a statement id kept on the shared instance: the latest submission's
PolledIdShared(p) == Len(statements)

\* the statement id line 32 polls
PolledId(p) == call[p].statement_id

Serving(p, tool) ==
  /\ main = "serving"
  /\ p \in world.callers
  /\ call[p].pc = "idle"
  /\ \E i \in 1..Len(tools) : tools[i] = tool

\* lines 19-28, entered from a tool: submit the statement, keep its id, start
\* the clock
ExecuteStatement(p, tool, sql) ==
  /\ Serving(p, tool)
  /\ LET statement_id == Len(statements) + 1
     IN  /\ statements' = Append(statements,
               [sql |-> sql, warehouse_id |-> databricks.warehouse_id,
                state |-> "PENDING", submitter |-> p])
         /\ call' = [call EXCEPT ![p].pc = "loop",
                                 ![p].tool = tool,
                                 ![p].sql = sql,
                                 ![p].statement_id = statement_id,
                                 ![p].start_time = now,
                                 ![p].rpcs = Append(@, [rpc |-> "execute_statement",
                                                        id |-> statement_id])]
  /\ UNCHANGED <<env, main, startup_error, databricks, tools, now, schemas, world>>

\* tool execute_sql_query(sql), lines 126-128
InvokeExecuteSqlQuery(p) == ExecuteStatement(p, "execute_sql_query", SelectSql)

\* tool describe_table, lines 146-148 and 76-81
InvokeDescribeTable(p) ==
  ExecuteStatement(p, "describe_table", DescribeSql(Catalog, Schema, Table))

\* tool create_table, lines 156-158 and 94-97
InvokeCreateTable(p) ==
  ExecuteStatement(p, "create_table", CreateTableSql(Catalog, Schema, Table, Columns))

\* tool insert_data, lines 161-163 and 101-109
InvokeInsertData(p) ==
  ExecuteStatement(p, "insert_data", InsertSql("main.test_schema.test_table", Values))

\* lines 31-48, one turn of the loop: the loop condition, then either the
\* status poll and the branch on its state, or the timeout after the loop
PollLoop(p) ==
  /\ call[p].pc = "loop"
  /\ IF LoopCondition(now, call[p].start_time)
     THEN \E status_response \in Responses(PolledId(p)) :
            LET core == Branch(status_response)
                polled == [call[p] EXCEPT
                             !.status_response = status_response,
                             !.observed = Append(@, status_response.state),
                             !.rpcs = Append(@, [rpc |-> "get_statement",
                                                 id |-> status_response.statement_id])]
            IN  IF core.kind = "none"
                THEN call' = [call EXCEPT ![p] = polled]
                ELSE call' = [call EXCEPT ![p] =
                                [polled EXCEPT !.pc = "done", !.core = core,
                                               !.outcome = ToolResult(call[p].tool, core)]]
     ELSE call' = [call EXCEPT ![p].pc = "done",
                               ![p].core = Raise(Timeout),
                               ![p].outcome = ToolResult(call[p].tool, Raise(Timeout))]
  /\ UNCHANGED <<env, main, startup_error, databricks, tools, now, statements, schemas, world>>

-----------------------------------------------------------------------------
(* Metadata operations: one remote call each, main.py lines 50-63, 88-90 *)

\* [x.name for x in records]
NamesOf(records) == [i \in 1..Len(records) |-> records[i].name]

Direct(p, tool, rpc, outcome) ==
  /\ Serving(p, tool)
  /\ call' = [call EXCEPT ![p].pc = "done", ![p].tool = tool,
                          ![p].rpcs = Append(@, [rpc |-> rpc, id |-> 0]),
                          ![p].outcome = outcome]
  /\ UNCHANGED <<env, main, startup_error, databricks, tools, now, statements, world>>

\* lines 50-53 and 131-133
ListCatalogs(p) ==
  /\ Direct(p, "list_catalogs", "catalogs.list", ReturnNames(NamesOf(Catalogs)))
  /\ UNCHANGED schemas

\* lines 55-58 and 136-138
ListSchemas(p) ==
  /\ Direct(p, "list_schemas", "schemas.list", ReturnNames(NamesOf(schemas)))
  /\ UNCHANGED schemas

\* lines 60-63 and 141-143
ListTables(p) ==
  /\ Direct(p, "list_tables", "tables.list", ReturnNames(NamesOf(Tables)))
  /\ UNCHANGED schemas

\* lines 88-90 and 151-153: the service refuses a schema that exists
CreateSchema(p) ==
  IF \E i \in 1..Len(schemas) : schemas[i].name = Schema
  THEN /\ Direct(p, "create_schema", "schemas.create", Raise(RemoteError))
       /\ UNCHANGED schemas
  ELSE /\ Direct(p, "create_schema", "schemas.create", ReturnNone)
       /\ schemas' = Append(schemas, [name |-> Schema])

-----------------------------------------------------------------------------
(* Specifications *)

Next ==
  \/ CheckConfig
  \/ Construct
  \/ RegisterTool
  \/ Run
  \/ \E p \in Procs : InvokeExecuteSqlQuery(p)
  \/ \E p \in Procs : InvokeDescribeTable(p)
  \/ \E p \in Procs : InvokeCreateTable(p)
  \/ \E p \in Procs : InvokeInsertData(p)
  \/ \E p \in Procs : PollLoop(p)
  \/ \E p \in Procs : ListCatalogs(p)
  \/ \E p \in Procs : ListSchemas(p)
  \/ \E p \in Procs : ListTables(p)
  \/ \E p \in Procs : CreateSchema(p)
  \/ EngineAdvance
  \/ Tick

\* every tool, one invocation, the engine holding any data within the bounds
Spec == Init /\ [][Next]_vars

\* the statement-execution core under concurrent invocations
NextConcurrent ==
  \/ CheckConfig
  \/ Construct
  \/ RegisterTool
  \/ Run
  \/ \E p \in Procs : InvokeExecuteSqlQuery(p)
  \/ \E p \in Procs : ListCatalogs(p)
  \/ \E p \in Procs : PollLoop(p)
  \/ EngineAdvance
  \/ Tick

SpecConcurrent == InitConcurrent /\ [][NextConcurrent]_vars

-----------------------------------------------------------------------------
(* Properties *)

\* the tools that run a statement through execute_sql_query
SqlTools == {"execute_sql_query", "describe_table", "create_table", "insert_data"}

\* the calls that entered execute_sql_query
SqlCalls == {p \in Procs : call[p].tool \in SqlTools}

\* the positions of the remote calls of one kind in a call's log
RpcsOf(p, rpc) == {k \in 1..Len(call[p].rpcs) : call[p].rpcs[k].rpc = rpc}

\* the polls of a call that saw a terminal state
TerminalPolls(p) == {i \in 1..Len(call[p].observed) : call[p].observed[i] \in Terminal}

\* C1: a call whose statement reported no terminal state on any poll ends
\* with the Timeout error, and with nothing else.
C1_NonTerminalEndsInTimeout ==
  \A p \in SqlCalls :
    (call[p].pc = "done" /\ TerminalPolls(p) = {})
      => /\ call[p].core = Raise(Timeout)
         /\ call[p].outcome = Raise(Timeout)

\* C2: a call that observed FAILED has ended with the ExecutionFailure error
\* and holds no rows, whatever the status response carried.
C2_FailedRaisesWithoutRows ==
  \A p \in SqlCalls :
    (\E i \in 1..Len(call[p].observed) : call[p].observed[i] = "FAILED")
      => /\ call[p].pc = "done"
         /\ call[p].core.kind = "raise"
         /\ call[p].core.error = ExecutionFailure
         /\ call[p].core.rows = << >>
         /\ call[p].outcome.kind = "raise"
         /\ call[p].outcome.error = ExecutionFailure
         /\ call[p].outcome.rows = << >>
         /\ call[p].outcome.columns = << >>

\* a FAILED status response that carried a populated data array
C2_Witness ==
  \E p \in SqlCalls :
    /\ call[p].pc = "done"
    /\ call[p].observed = <<"FAILED">>
    /\ call[p].status_response.result.has_data
    /\ Len(call[p].status_response.result.data_array) = MaxRows

\* C3: a call that observed SUCCEEDED returned the response's data array row
\* for row (same length, same order, same values in the same positions), and
\* the empty sequence when the response has no result, no data array or an
\* empty one.
C3_SucceededReturnsDataArray ==
  \A p \in SqlCalls :
    (\E i \in 1..Len(call[p].observed) : call[p].observed[i] = "SUCCEEDED")
      => LET result == call[p].status_response.result
             rows == call[p].core.rows
         IN  /\ call[p].pc = "done"
             /\ call[p].core.kind = "rows"
             /\ IF result.has_result /\ result.has_data
                THEN /\ Len(rows) = Len(result.data_array)
                     /\ \A i \in 1..Len(rows) :
                          /\ Len(rows[i]) = Len(result.data_array[i])
                          /\ \A j \in 1..Len(rows[i]) : rows[i][j] = result.data_array[i][j]
                ELSE rows = << >>

\* a query that succeeded with the two fixture rows, in the engine's order
C3_Witness ==
  \E p \in Procs :
    /\ call[p].tool = "execute_sql_query"
    /\ call[p].pc = "done"
    /\ call[p].observed = <<"SUCCEEDED">>
    /\ call[p].status_response.result = Data(FixtureRows)
    /\ call[p].outcome = ReturnRows(<< <<Str_1, Str_Alice>>, <<Str_2, Str_Bob>> >>)

\* the uppercase letter of each lowercase letter
Letters ==
  { <<"a", "A">>, <<"b", "B">>, <<"c", "C">>, <<"d", "D">>, <<"e", "E">>, <<"f", "F">>,
    <<"g", "G">>, <<"h", "H">>, <<"i", "I">>, <<"j", "J">>, <<"k", "K">>, <<"l", "L">>,
    <<"m", "M">>, <<"n", "N">>, <<"o", "O">>, <<"p", "P">>, <<"q", "Q">>, <<"r", "R">>,
    <<"s", "S">>, <<"t", "T">>, <<"u", "U">>, <<"v", "V">>, <<"w", "W">>, <<"x", "X">>,
    <<"y", "Y">>, <<"z", "Z">> }

\* u is s uppercased: as long as s, lowercase letters replaced, the rest kept
IsUppercased(u, s) ==
  /\ Len(u) = Len(s)
  /\ \A k \in 1..Len(s) :
       IF \E l \in Letters : l[1] = s[k]
       THEN <<s[k], u[k]>> \in Letters
       ELSE u[k] = s[k]

\* C4: describe_table's mapping lists, for the rows R the execution core
\* returned, element 0 of each row as columns and the uppercased element 1 as
\* data_types, both of length |R| and in R's order.
C4_DescribeProjectsRows ==
  \A p \in Procs :
    (call[p].tool = "describe_table" /\ call[p].pc = "done" /\ call[p].core.kind = "rows")
      => LET R == call[p].core.rows
             d == call[p].outcome
         IN  /\ d.kind = "dict"
             /\ Len(d.columns) = Len(R)
             /\ Len(d.data_types) = Len(R)
             /\ \A i \in 1..Len(R) :
                  /\ d.columns[i] = R[i][1]
                  /\ IsUppercased(d.data_types[i], R[i][2])

\* the table of the test suite: id INT, name STRING
C4_Witness ==
  \E p \in Procs :
    /\ call[p].tool = "describe_table"
    /\ call[p].pc = "done"
    /\ call[p].core.rows = FixtureDescription
    /\ call[p].outcome.columns = <<Str_id, Str_name>>
    /\ call[p].outcome.data_types = <<Str_INT, Str_STRING>>

\* a required configuration value is absent or empty
Missing ==
  \E v \in {env.host, env.token, env.warehouse_id} : v = None \/ v = ""

\* C5: with a required configuration value absent or empty, startup fails with
\* MissingConfiguration before the client is constructed and before any tool is
\* registered, and no tool is ever invoked; with all three present startup
\* does not fail and serves with all eight tools registered.
C5_StartupNeedsConfiguration ==
  /\ (Missing /\ main # "check")
       => /\ main = "failed"
          /\ startup_error = MissingConfiguration
          /\ databricks = NoInstance
          /\ tools = << >>
          /\ \A p \in Procs : call[p] = IdleCall
  /\ ~Missing
       => /\ main # "failed"
          /\ startup_error = None
          /\ main = "serving" => (databricks.constructed /\ tools = ToolNames /\ Len(tools) = 8)
  /\ \A p \in Procs : call[p].pc # "idle" => (main = "serving" /\ ~Missing)

\* startup refused a warehouse identifier that is present but empty
C5_Witness ==
  /\ main = "failed"
  /\ env = [host |-> "set", token |-> "set", warehouse_id |-> ""]
  /\ startup_error = MissingConfiguration

C7_PollsUntilTerminalOrTimeout ==
  \A p \in SqlCalls :
    /\ Cardinality(RpcsOf(p, "execute_statement")) = 1
    /\ ( /\ call[p].observed # << >>
         /\ call[p].observed[Len(call[p].observed)] \notin Terminal
         /\ now - call[p].start_time < timeout )
         => call[p].pc = "loop"

\* C8: a call observes at most one terminal state, the poll that observed it
\* is the last remote call of the call, and the call has ended.
C8_TerminalPollIsLast ==
  \A p \in SqlCalls :
    /\ Cardinality(TerminalPolls(p)) <= 1
    /\ \A i \in TerminalPolls(p) :
         /\ i = Len(call[p].observed)
         /\ call[p].pc = "done"
         /\ call[p].rpcs[Len(call[p].rpcs)] =
              [rpc |-> "get_statement", id |-> call[p].statement_id]
         /\ Cardinality(RpcsOf(p, "get_statement")) = Len(call[p].observed)

\* a call that saw its statement canceled
C8_Witness ==
  \E p \in SqlCalls :
    /\ call[p].observed = <<"CANCELED">>
    /\ call[p].pc = "done"
    /\ Len(call[p].rpcs) = 2

\* the errors of the execution core
CoreErrors ==
  {ExecutionFailure, ExecutionCanceled, Timeout} \cup {UnexpectedState(s) : s \in StatementState}

\* C9: every tool that runs a statement submits it exactly once, and when the
\* execution core raised, the tool ended with that same error and its remote
\* calls are the one submission and the polls before the error.
C9_NoRetryErrorsPropagate ==
  \A p \in SqlCalls :
    /\ RpcsOf(p, "execute_statement") = {1}
    /\ call[p].core.kind = "raise"
         => /\ call[p].pc = "done"
            /\ call[p].core.error \in CoreErrors
            /\ call[p].outcome = Raise(call[p].core.error)
            /\ Len(call[p].rpcs) = 1 + Len(call[p].observed)
            /\ RpcsOf(p, "get_statement") = 2..Len(call[p].rpcs)

\* describe_table ending with the core's ExecutionCanceled
C9_Witness ==
  \E p \in Procs :
    /\ call[p].tool = "describe_table"
    /\ call[p].pc = "done"
    /\ call[p].core = Raise(ExecutionCanceled)
    /\ call[p].outcome = Raise(ExecutionCanceled)

\* C10: under concurrent invocations every call polls only the statement its
\* own submission returned, ends with the outcome its own statement's state
\* determines, and the shared instance stays as __init__ left it.
C10_CallsAreIsolated ==
  /\ \A p \in SqlCalls :
       /\ statements[call[p].statement_id].submitter = p
       /\ \A k \in RpcsOf(p, "get_statement") :
            call[p].rpcs[k].id = call[p].rpcs[1].id
       /\ call[p].observed # << >>
            => LET own == statements[call[p].rpcs[1].id].state
               IN  /\ call[p].pc = "done"
                   /\ call[p].status_response.state = own
                   /\ own = "SUCCEEDED" => call[p].outcome.kind = "rows"
                   /\ own = "FAILED" => call[p].outcome = Raise(ExecutionFailure)
                   /\ own = "CANCELED" => call[p].outcome = Raise(ExecutionCanceled)
                   /\ own \notin Terminal => call[p].outcome = Raise(UnexpectedState(own))
  /\ main = "serving"
       => databricks = [constructed |-> TRUE,
                        client |-> [host |-> env.host, token |-> env.token],
                        warehouse_id |-> env.warehouse_id]
  /\ \A id \in 1..Len(statements) : statements[id].warehouse_id = env.warehouse_id

\* a call that failed while an earlier call, its statement finished but not
\* yet polled, is still in flight
C10_Witness ==
  /\ call[1].tool = "execute_sql_query"
  /\ call[1].statement_id = 1
  /\ call[1].pc = "loop"
  /\ statements[1].state = "SUCCEEDED"
  /\ call[2].tool = "execute_sql_query"
  /\ call[2].statement_id = 2
  /\ call[2].pc = "done"
  /\ call[2].outcome = Raise(ExecutionFailure)

=============================================================================
